---- MODULE Spec2Model ----
(***************************************************************************)
(* Model of vault/logical_system_activity_write_testonly.go: the handler   *)
(* that generates mock activity-log clients for several months, partitions *)
(* every month into segments and hands the segments to the activity log.   *)
(*                                                                         *)
(* Go slices are sequences (Go position p is TLA+ position p + 1), Go maps *)
(* are functions whose DOMAIN is the key set, a Go pointer to an           *)
(* EntityRecord is its position in the heap, and an optional value (a nil  *)
(* pointer, an unset message) is a sequence of length 0 or 1.              *)
(***************************************************************************)
EXTENDS Integers, Sequences, FiniteSets, TLC

\* ------------------------------------------------------------------ bounds
\* largest count of a client directive
MaxCount == 3
\* largest numSegments of a month directive
MaxNumSegments == 3
\* largest segment index named by a skip list, an empty list or a segment group
MaxIndex == 2
\* oldest month a request names
MaxMonthsAgo == 2
\* reads the aggregator may make beyond one per batch
ReadSlack == 2

\* ------------------------------------------------------- generic helpers
Min(a, b) == IF a < b THEN a ELSE b

Range(s) == {s[i] : i \in DOMAIN s}

SeqsUpTo2(S) == {<<>>} \cup {<<a>> : a \in S} \cup {<<a, b>> : a \in S, b \in S}

EmptyMap == [k \in {} |-> 0]

MapPut(m, k, v) == [x \in (DOMAIN m) \cup {k} |-> IF x = k THEN v ELSE m[x]]

\* ------------------------------------------------- environment (the Core)
RootNamespaceID == "root"

\* core.ListMounts(): the mount table, in table order
Mounts == << [NamespaceID |-> "ns1", Accessor |-> "auth_ns1"],
             [NamespaceID |-> "root", Accessor |-> "token_root"],
             [NamespaceID |-> "root", Accessor |-> "kv_root"],
             [NamespaceID |-> "ns1", Accessor |-> "kv_ns1"] >>

\* core.NamespaceByID: the namespaces that exist ("ns2" exists and has no mount)
Namespaces == {"root", "ns1", "ns2"}

\* core.router.MatchingMountEntry: the (namespace, mount path) pairs that resolve
MountPaths == {<<"root", "kv/">>, <<"ns1", "kv/">>}

entityActivityType == "entity"
nonEntityTokenActivityType == "non-entity-token"

\* uuid.GenerateUUID: the n-th identifier handed out
GenerateUUID(n) == "uuid-" \o ToString(n)

\* ----------------------------------------------------------- slice values
\* a Go slice value: nil, or a (possibly empty) list of record pointers
NilSlice == [nil |-> TRUE, recs |-> <<>>]
MakeSlice(recs) == [nil |-> FALSE, recs |-> recs]
\* append(s, r): appending to a nil slice allocates
AppendSlice(s, r) == [nil |-> FALSE, recs |-> Append(s.recs, r)]

\* ------------------------------------------- singleMonthActivityClients
NewSingleMonth == [clients |-> <<>>, predefinedSegments |-> EmptyMap,
                   generationParameters |-> <<>>]

\* mutant of addEntityRecord: the record is put in front of the pool
addEntityRecordInFront(s, record, segmentIndex) ==
    [s EXCEPT !.clients = <<record>> \o @]

\* s.addEntityRecord(record, segmentIndex)
addEntityRecord(s, record, segmentIndex) ==
    LET clients == Append(s.clients, record)
        index == Len(clients) - 1
        pre == s.predefinedSegments
    IN  IF segmentIndex # <<>>
        THEN [s EXCEPT !.clients = clients,
                       !.predefinedSegments =
                           MapPut(pre, segmentIndex[1],
                                  Append(IF segmentIndex[1] \in DOMAIN pre
                                         THEN pre[segmentIndex[1]] ELSE <<>>, index))]
        ELSE [s EXCEPT !.clients = clients]

\* mutant of reserveIndexes: the empty indexes are stored as nil too
RECURSIVE reserveIndexesAsNil(_, _, _)
reserveIndexesAsNil(segments, indexes, value) ==
    IF indexes = <<>> THEN segments
    ELSE reserveIndexesAsNil(MapPut(segments, Head(indexes), NilSlice), Tail(indexes), value)

\* the two loops that reserve the skipped and the empty indexes
RECURSIVE reserveIndexes(_, _, _)
reserveIndexes(segments, indexes, value) ==
    IF indexes = <<>> THEN segments
    ELSE reserveIndexes(MapPut(segments, Head(indexes), value), Tail(indexes), value)

\* mutant of predefinedToSegments: only the last record of a tag is kept
RECURSIVE predefinedToSegmentsLastOnly(_, _, _)
predefinedToSegmentsLastOnly(s, segments, keys) ==
    IF keys = {} THEN segments
    ELSE LET segment == CHOOSE k \in keys : TRUE
             clientIndexes == s.predefinedSegments[segment]
             clientsInSegment == <<s.clients[clientIndexes[Len(clientIndexes)] + 1]>>
         IN  predefinedToSegmentsLastOnly(s, MapPut(segments, segment,
                                                    MakeSlice(clientsInSegment)),
                                          keys \ {segment})

\* the predefined-segments branch: one list per tag, in the order the
\* positions were recorded
RECURSIVE predefinedToSegments(_, _, _)
predefinedToSegments(s, segments, keys) ==
    IF keys = {} THEN segments
    ELSE LET segment == CHOOSE k \in keys : TRUE
             clientIndexes == s.predefinedSegments[segment]
             clientsInSegment ==
                 [j \in 1..Len(clientIndexes) |-> s.clients[clientIndexes[j] + 1]]
         IN  predefinedToSegments(s, MapPut(segments, segment, MakeSlice(clientsInSegment)),
                                  keys \ {segment})

SegLen(segments, i) == IF i \in DOMAIN segments THEN Len(segments[i].recs) ELSE 0

\* the inner loop of the implicit branch: append while the segment is short
RECURSIVE fillOne(_, _, _, _, _)
fillOne(clients, segmentSizes, i, segments, clientIndex) ==
    IF SegLen(segments, i) < segmentSizes /\ clientIndex < Len(clients)
    THEN fillOne(clients, segmentSizes, i,
                 MapPut(segments, i,
                        AppendSlice(IF i \in DOMAIN segments THEN segments[i] ELSE NilSlice,
                                    clients[clientIndex + 1])),
                 clientIndex + 1)
    ELSE [segments |-> segments, clientIndex |-> clientIndex]

\* mutant of fillSegments: the reserved indexes are filled like the others
RECURSIVE fillSegmentsIntoReserved(_, _, _, _, _, _, _)
fillSegmentsIntoReserved(clients, ignoreIndexes, totalSegmentCount, segmentSizes, i, segments, clientIndex) ==
    IF i >= totalSegmentCount \/ clientIndex >= Len(clients) THEN segments
    ELSE LET r == fillOne(clients, segmentSizes, i, segments, clientIndex)
         IN  fillSegmentsIntoReserved(clients, ignoreIndexes, totalSegmentCount, segmentSizes,
                                      i + 1, r.segments, r.clientIndex)

\* the outer loop of the implicit branch
RECURSIVE fillSegments(_, _, _, _, _, _, _)
fillSegments(clients, ignoreIndexes, totalSegmentCount, segmentSizes, i, segments, clientIndex) ==
    IF i >= totalSegmentCount \/ clientIndex >= Len(clients) THEN segments
    ELSE IF i \in ignoreIndexes
         THEN fillSegments(clients, ignoreIndexes, totalSegmentCount, segmentSizes,
                           i + 1, segments, clientIndex)
         ELSE LET r == fillOne(clients, segmentSizes, i, segments, clientIndex)
              IN  fillSegments(clients, ignoreIndexes, totalSegmentCount, segmentSizes,
                               i + 1, r.segments, r.clientIndex)

\* segments after the loops over skipIndexes and emptyIndexes
reservedSegments(gp) ==
    reserveIndexes(reserveIndexes(EmptyMap, gp.SkipSegmentIndexes, NilSlice),
                   gp.EmptySegmentIndexes, MakeSlice(<<>>))

\* the keys of ignoreIndexes
ignoreIndexesOf(gp) == Range(gp.SkipSegmentIndexes) \cup Range(gp.EmptySegmentIndexes)

totalSegmentCountOf(gp) == IF gp.NumSegments > 0 THEN gp.NumSegments ELSE 1

numNonUsableOf(gp) == Len(gp.SkipSegmentIndexes) + Len(gp.EmptySegmentIndexes)

usableSegmentCountOf(gp) == totalSegmentCountOf(gp) - numNonUsableOf(gp)

\* mutant of tooFewSegments: a single usable segment is rejected too
tooFewSegmentsOffByOne(usableSegmentCount) == usableSegmentCount <= 1

\* the test that rejects the month
tooFewSegments(usableSegmentCount) == usableSegmentCount <= 0

\* mutant of segmentSizesOf: the size is not rounded up
segmentSizesRoundedDown(n, usableSegmentCount) == n \div usableSegmentCount

\* how many clients should be in each segment
segmentSizesOf(n, usableSegmentCount) ==
    (n \div usableSegmentCount) + (IF n % usableSegmentCount # 0 THEN 1 ELSE 0)

\* mutant of populateSegments: the segment count is tested before the
\* predefined segments are looked at
populateSegmentsSizingFirst(s) ==
    IF tooFewSegments(usableSegmentCountOf(s.generationParameters[1]))
    THEN [err |-> TRUE, segments |-> EmptyMap]
    ELSE IF DOMAIN s.predefinedSegments # {}
         THEN [err |-> FALSE,
               segments |-> predefinedToSegments(s, reservedSegments(s.generationParameters[1]),
                                                 DOMAIN s.predefinedSegments)]
         ELSE [err |-> FALSE,
               segments |->
                   fillSegments(s.clients, ignoreIndexesOf(s.generationParameters[1]),
                                totalSegmentCountOf(s.generationParameters[1]),
                                segmentSizesOf(Len(s.clients),
                                               usableSegmentCountOf(s.generationParameters[1])),
                                0, reservedSegments(s.generationParameters[1]), 0)]

\* s.populateSegments(): [err, segments]
populateSegments(s) ==
    IF DOMAIN s.predefinedSegments # {}
    THEN [err |-> FALSE,
          segments |-> predefinedToSegments(s, reservedSegments(s.generationParameters[1]),
                                            DOMAIN s.predefinedSegments)]
    ELSE IF tooFewSegments(usableSegmentCountOf(s.generationParameters[1]))
         THEN [err |-> TRUE, segments |-> EmptyMap]
         ELSE [err |-> FALSE,
               segments |->
                   fillSegments(s.clients, ignoreIndexesOf(s.generationParameters[1]),
                                totalSegmentCountOf(s.generationParameters[1]),
                                segmentSizesOf(Len(s.clients),
                                               usableSegmentCountOf(s.generationParameters[1])),
                                0, reservedSegments(s.generationParameters[1]), 0)]

\* ------------------------------------------------------------ EntityRecord
\* &activity.EntityRecord{...} of addNewClients
NewEntityRecord(c, clientID, mountAccessor) ==
    [ClientID |-> clientID,
     NamespaceID |-> c.Namespace,
     NonEntity |-> c.NonEntity,
     MountAccessor |-> mountAccessor,
     ClientType |-> IF c.NonEntity THEN nonEntityTokenActivityType ELSE entityActivityType]

\* -------------------------------------------- multipleMonthsActivityClients
\* The assembly state threaded through processMonth:
\*   months  m.months                    heap   the EntityRecords allocated so far
\*   uuids   GenerateUUID calls so far   budget GenerateUUID calls that still succeed
\*                                              (-1: all of them)
\*   err     "" or the error returned    missing the count the repeat error reports
newMultipleMonthsActivityClients(numberOfMonths) ==
    [i \in 1..numberOfMonths |-> NewSingleMonth]

Fail(st, e) == [st EXCEPT !.err = e]

\* addingTo.addEntityRecord(record, segmentIndex), addingTo being m.months[monthsAgo]
addToMonth(st, monthsAgo, record, segmentIndex) ==
    [st EXCEPT !.months[monthsAgo + 1] = addEntityRecord(@, record, segmentIndex)]

\* one record of addNewClients: allocate it, name it, add it to the month
newClient(st, monthsAgo, c, mountAccessor, segmentIndex) ==
    addToMonth([st EXCEPT
                  !.heap = Append(@, NewEntityRecord(c, IF c.Id = ""
                                                        THEN GenerateUUID(st.uuids + 1)
                                                        ELSE c.Id, mountAccessor)),
                  !.uuids = IF c.Id = "" THEN @ + 1 ELSE @,
                  !.budget = IF c.Id = "" /\ @ > 0 THEN @ - 1 ELSE @],
               monthsAgo, Len(st.heap) + 1, segmentIndex)

\* the loop of addNewClients, i counting the records still to create; it
\* stops at the first GenerateUUID that fails
RECURSIVE addNewClientsLoop(_, _, _, _, _, _)
addNewClientsLoop(st, monthsAgo, c, mountAccessor, segmentIndex, i) ==
    IF i = 0 THEN st
    ELSE IF c.Id = "" /\ st.budget = 0
         THEN Fail(st, "uuid")
         ELSE addNewClientsLoop(newClient(st, monthsAgo, c, mountAccessor, segmentIndex),
                                monthsAgo, c, mountAccessor, segmentIndex, i - 1)

\* s.addNewClients(c, mountAccessor, segmentIndex) on month monthsAgo
addNewClients(st, monthsAgo, c, mountAccessor, segmentIndex) ==
    addNewClientsLoop(st, monthsAgo, c, mountAccessor, segmentIndex,
                      IF c.Count > 1 THEN c.Count ELSE 1)

\* mutant of repeatMatches: the non-entity flag is not compared
repeatMatchesAnyType(st, c, mountAccessor, client) ==
    /\ mountAccessor = st.heap[client].MountAccessor
    /\ c.Namespace = st.heap[client].NamespaceID

\* the condition of the repeat loop
repeatMatches(st, c, mountAccessor, client) ==
    /\ c.NonEntity = st.heap[client].NonEntity
    /\ mountAccessor = st.heap[client].MountAccessor
    /\ c.Namespace = st.heap[client].NamespaceID

\* the loop of addRepeatedClients over the source slice as it was when the
\* loop began: [st, numClients]
RECURSIVE addRepeatedLoop(_, _, _, _, _, _, _)
addRepeatedLoop(st, monthsAgo, c, mountAccessor, segmentIndex, from, numClients) ==
    IF from = <<>> THEN [st |-> st, numClients |-> numClients]
    ELSE IF ~repeatMatches(st, c, mountAccessor, Head(from))
         THEN addRepeatedLoop(st, monthsAgo, c, mountAccessor, segmentIndex,
                              Tail(from), numClients)
         ELSE IF numClients - 1 = 0
              THEN [st |-> addToMonth(st, monthsAgo, Head(from), segmentIndex),
                    numClients |-> 0]
              ELSE addRepeatedLoop(addToMonth(st, monthsAgo, Head(from), segmentIndex),
                                   monthsAgo, c, mountAccessor, segmentIndex,
                                   Tail(from), numClients - 1)

\* the month a repeat directive reads
repeatedFromMonthOf(monthsAgo, c) ==
    IF c.RepeatedFromMonth > 0 THEN c.RepeatedFromMonth ELSE monthsAgo + 1

\* mutant of repeatedResult: one missing client is tolerated
repeatedResultLenient(r) ==
    IF r.numClients > 1
    THEN [r.st EXCEPT !.err = "missing", !.missing = r.numClients]
    ELSE r.st

\* the end of addRepeatedClients: the error when clients are missing
repeatedResult(r) ==
    IF r.numClients > 0
    THEN [r.st EXCEPT !.err = "missing", !.missing = r.numClients]
    ELSE r.st

\* m.addRepeatedClients(monthsAgo, c, mountAccessor, segmentIndex); indexing
\* m.months beyond its length panics
addRepeatedClients(st, monthsAgo, c, mountAccessor, segmentIndex) ==
    IF repeatedFromMonthOf(monthsAgo, c) >= Len(st.months)
    THEN Fail(st, "panic")
    ELSE repeatedResult(
             addRepeatedLoop(st, monthsAgo, c, mountAccessor, segmentIndex,
                             st.months[repeatedFromMonthOf(monthsAgo, c) + 1].clients,
                             IF c.Count > 0 THEN c.Count ELSE 1))

\* m.addClientToMonth(monthsAgo, c, mountAccessor, segmentIndex)
addClientToMonth(st, monthsAgo, c, mountAccessor, segmentIndex) ==
    IF c.Repeated \/ c.RepeatedFromMonth > 0
    THEN addRepeatedClients(st, monthsAgo, c, mountAccessor, segmentIndex)
    ELSE addNewClients(st, monthsAgo, c, mountAccessor, segmentIndex)

\* the first mount of a namespace, in table order: <<>> or <<accessor>>
RECURSIVE firstMountOf(_, _)
firstMountOf(mounts, ns) ==
    IF mounts = <<>> THEN <<>>
    ELSE IF Head(mounts).NamespaceID = ns THEN <<Head(mounts).Accessor>>
         ELSE firstMountOf(Tail(mounts), ns)

defaultMountAccessorRootNS ==
    IF firstMountOf(Mounts, RootNamespaceID) = <<>> THEN ""
    ELSE firstMountOf(Mounts, RootNamespaceID)[1]

\* the namespace default of the closure add
defaultNamespace(clients) ==
    IF clients.Namespace = "" THEN [clients EXCEPT !.Namespace = RootNamespaceID] ELSE clients

\* the mount accessor the closure add resolves: <<>> when the namespace has no mount
mountAccessorOf(clients) ==
    IF clients.Namespace # RootNamespaceID /\ clients.Mount = ""
    THEN firstMountOf(Mounts, clients.Namespace)
    ELSE <<defaultMountAccessorRootNS>>

\* mutant of segmentIndexOf: a group's own index is not looked at
segmentIndexOfPositionOnly(month, seg) ==
    IF seg = 0 THEN <<>> ELSE <<seg - 1>>

\* the segment index the closure add is called with: none for the all-clients
\* shape (seg = 0), else the group's own index or its position in the list
segmentIndexOf(month, seg) ==
    IF seg = 0 THEN <<>>
    ELSE IF month.Segments[seg].SegmentIndex # <<>>
         THEN <<month.Segments[seg].SegmentIndex[1]>>
         ELSE <<seg - 1>>

\* the client list the closure add is ranging over
clientListOf(month, seg) == IF seg = 0 THEN month.All ELSE month.Segments[seg].Clients

\* the first client directive at or after position (seg, ci) of a month
\* directive, in the order processMonth reaches them: <<seg, ci>>, or <<>>
\* when processMonth returns nil
RECURSIVE seek(_, _, _)
seek(month, seg, ci) ==
    IF seg = 0
    THEN IF ci <= Len(month.All) THEN <<0, ci>> ELSE <<>>
    ELSE IF seg > Len(month.Segments) THEN <<>>
         ELSE IF ci <= Len(month.Segments[seg].Clients) THEN <<seg, ci>>
              ELSE seek(month, seg + 1, 1)

firstSegOf(month) == IF month.Kind = "all" THEN 0 ELSE 1

\* the month directive with the client at (seg, ci) replaced
withClient(month, seg, ci, c) ==
    IF seg = 0 THEN [month EXCEPT !.All[ci] = c]
    ELSE [month EXCEPT !.Segments[seg].Clients[ci] = c]

\* ------------------------------------------------------------ Output Stage
WRITE_ENTITIES == "WRITE_ENTITIES"
WRITE_PRECOMPUTED_QUERIES == "WRITE_PRECOMPUTED_QUERIES"
WRITE_DISTINCT_CLIENTS == "WRITE_DISTINCT_CLIENTS"

\* A time is a month (its ordinal) and where it lies in it: 0 the first
\* instant, 1 somewhere inside, 2 the last instant.
ZeroTime == [month |-> 0, off |-> 0]
StartOfMonth(t) == [t EXCEPT !.off = 0]
EndOfMonth(t) == [t EXCEPT !.off = 2]
\* the start of the month i months before the month of t
MonthsPreviousTo(i, t) == [month |-> t.month - i, off |-> 0]

\* the timestamp write gives the month at index i
monthTimestamp(i, t) == IF i > 0 THEN StartOfMonth(MonthsPreviousTo(i, t)) ELSE t

\* m.latestTimestamp(now): <<>> stands for the zero time
RECURSIVE latestFrom(_, _, _)
latestFrom(ms, i, t) ==
    IF i >= Len(ms) THEN <<>>
    ELSE IF ms[i + 1].generationParameters # <<>>
         THEN <<StartOfMonth(MonthsPreviousTo(i, t))>>
         ELSE latestFrom(ms, i + 1, t)

\* mutant of latestTimestamp: the current month, populated or not
latestTimestampOfCurrentMonth(ms, t) == <<StartOfMonth(MonthsPreviousTo(0, t))>>

latestTimestamp(ms, t) == latestFrom(ms, 0, t)

\* m.earliestTimestamp(now)
RECURSIVE earliestFrom(_, _, _)
earliestFrom(ms, i, t) ==
    IF i < 0 THEN <<>>
    ELSE IF ms[i + 1].generationParameters # <<>>
         THEN <<StartOfMonth(MonthsPreviousTo(i, t))>>
         ELSE earliestFrom(ms, i - 1, t)

earliestTimestamp(ms, t) == earliestFrom(ms, Len(ms) - 1, t)

NoPqOptions == [set |-> FALSE, activePeriodEnd |-> <<>>, endTime |-> <<>>,
                activePeriodStart |-> <<>>]

\* newProtoSegmentReader(segments), the map being ranged over in the order
\* given; the test inside the loop is on the map, which is never nil here
newProtoSegmentReader(segs, order) ==
    [records |-> [j \in 1..Len(order) |-> segs[order[j]]], i |-> 0]

\* the orders in which a range over a map with these keys can visit them
Orders(keys) ==
    {o \in [1..Cardinality(keys) -> keys] : \A a, b \in DOMAIN o : a # b => o[a] # o[b]}

\* ------------------------------------------------------------------ inputs
\* generation.Client
Client(id, count, ns, mount, nonEntity, repeated, repeatedFromMonth) ==
    [Id |-> id, Count |-> count, Namespace |-> ns, Mount |-> mount, NonEntity |-> nonEntity,
     Repeated |-> repeated, RepeatedFromMonth |-> repeatedFromMonth]

New(count, ns, nonEntity) == Client("", count, ns, "", nonEntity, FALSE, 0)

\* generation.Data with the all-clients shape
AllMonth(monthsAgo, numSegments, skip, empty, clients) ==
    [MonthsAgo |-> monthsAgo, NumSegments |-> numSegments, SkipSegmentIndexes |-> skip,
     EmptySegmentIndexes |-> empty, Kind |-> "all", All |-> clients, Segments |-> <<>>]

\* generation.Data with the predefined-segments shape
SegmentsMonth(monthsAgo, numSegments, skip, empty, segs) ==
    [MonthsAgo |-> monthsAgo, NumSegments |-> numSegments, SkipSegmentIndexes |-> skip,
     EmptySegmentIndexes |-> empty, Kind |-> "segments", All |-> <<>>, Segments |-> segs]

\* generation.Segment
Segment(segmentIndex, clients) == [SegmentIndex |-> segmentIndex, Clients |-> clients]

Request(write, data) == [Write |-> write, Data |-> data]

IndexLists == SeqsUpTo2(0..MaxIndex)
ShortIndexLists == {<<>>} \cup {<<a>> : a \in 0..MaxIndex}

\* one month, all-clients shape: every pool size, segment count, skip and empty list
ImplicitInputs ==
    {Request(<<WRITE_ENTITIES>>, <<AllMonth(0, t, skip, empty, cl)>>) :
        t \in 0..MaxNumSegments, skip \in IndexLists, empty \in ShortIndexLists,
        cl \in {<<>>} \cup {<<New(n, "", FALSE)>> : n \in 1..MaxCount}}

\* one month, predefined-segments shape: one or two groups, tagged or positional
SegmentGroups ==
    {Segment(ix, <<New(n, "", FALSE)>>) :
        ix \in {<<>>} \cup {<<a>> : a \in 0..MaxIndex}, n \in 1..2}

ExplicitInputs ==
    {Request(<<WRITE_ENTITIES>>, <<SegmentsMonth(0, t, skip, empty, segs)>>) :
        t \in {0, 1}, skip \in ShortIndexLists, empty \in {<<>>, <<0>>},
        segs \in {<<g>> : g \in SegmentGroups} \cup {<<g, h>> : g \in SegmentGroups, h \in SegmentGroups}}

\* two months, the newer one repeating clients of the older one
SourceClients == {New(1, "", FALSE), New(2, "", FALSE), New(1, "ns1", FALSE), New(1, "", TRUE)}

RepeatClients ==
    {c \in {Client("", n, ns, "", ne, rep, rfm) :
                n \in 0..MaxCount, ns \in {"", "ns1"}, ne \in BOOLEAN,
                rep \in BOOLEAN, rfm \in 0..MaxMonthsAgo} :
        c.Repeated \/ c.RepeatedFromMonth > 0}

RepeatInputs ==
    {Request(<<WRITE_ENTITIES>>,
             <<AllMonth(1, 0, <<>>, <<>>, <<a, b, c>>), AllMonth(0, 0, <<>>, <<>>, pre \o <<r>>)>>) :
        a \in SourceClients, b \in {New(1, "ns1", FALSE), New(1, "", TRUE)},
        c \in {New(1, "", FALSE), New(2, "", FALSE)},
        pre \in {<<>>, <<New(1, "", FALSE)>>}, r \in RepeatClients}
    \cup
    {Request(<<WRITE_ENTITIES>>,
             <<AllMonth(0, 0, <<>>, <<>>, <<r>>), AllMonth(ma, 0, <<>>, <<>>, <<a, r>>)>>) :
        a \in SourceClients, r \in RepeatClients, ma \in 1..MaxMonthsAgo}

\* several months, every choice of write options
WriteLists ==
    {<<WRITE_ENTITIES>>, <<WRITE_PRECOMPUTED_QUERIES>>, <<WRITE_DISTINCT_CLIENTS>>,
     <<WRITE_DISTINCT_CLIENTS, WRITE_ENTITIES, WRITE_ENTITIES>>}

SimpleMonths ==
    {AllMonth(ma, tse[1], tse[2], tse[3], <<New(2, "", FALSE)>>) :
        ma \in 0..MaxMonthsAgo,
        tse \in {<<3, <<>>, <<>>>>, <<3, <<0>>, <<1>>>>, <<2, <<0>>, <<1>>>>}}
    \cup
    {SegmentsMonth(ma, 0, <<1>>, <<>>,
                   <<Segment(<<>>, <<New(1, "", FALSE)>>),
                     Segment(<<1>>, <<New(1, "ns1", TRUE)>>)>>) :
        ma \in 0..MaxMonthsAgo}

\* one month with every write list, two months with the lists that aggregate
MultiMonthInputs ==
    {Request(w, <<a>>) : w \in WriteLists, a \in SimpleMonths}
    \cup
    {Request(w, <<a, b>>) :
        w \in {<<WRITE_PRECOMPUTED_QUERIES>>,
                <<WRITE_DISTINCT_CLIENTS, WRITE_ENTITIES, WRITE_ENTITIES>>},
        a \in SimpleMonths, b \in SimpleMonths}

\* requests the handler or the assembly rejects
BadClients ==
    {Client("", 1, "nsX", "", FALSE, FALSE, 0), Client("", 1, "ns2", "", FALSE, FALSE, 0),
     Client("", 1, "", "bad/", FALSE, FALSE, 0), Client("", 1, "ns1", "bad/", TRUE, FALSE, 0),
     Client("c1", 2, "ns1", "kv/", FALSE, FALSE, 0), Client("c2", 0, "", "kv/", TRUE, FALSE, 0)}

RejectedInputs ==
    {Request(w, d) : w \in {<<>>, <<WRITE_ENTITIES>>},
                     d \in {<<>>, <<AllMonth(0, 1, <<>>, <<>>, <<New(1, "", FALSE)>>)>>}}
    \cup
    {Request(w, <<AllMonth(1, 1, <<>>, <<>>, <<New(1, "", FALSE), a>>),
                  AllMonth(0, 1, <<>>, <<>>, <<b>>)>>) :
        w \in {<<WRITE_ENTITIES>>, <<WRITE_ENTITIES, WRITE_PRECOMPUTED_QUERIES>>},
        a \in BadClients, b \in BadClients}

\* two month directives for the same month, one of each shape
MixedInputs ==
    {Request(<<WRITE_ENTITIES>>, d) :
        d \in UNION {{<<a, b>>, <<b, a>>} :
                        a \in {AllMonth(0, t, <<>>, <<>>, <<New(n, "", FALSE)>>) :
                                  t \in 0..1, n \in 1..2},
                        b \in {SegmentsMonth(0, 0, <<>>, <<>>, <<g>>) : g \in SegmentGroups}}}

\* two months, the newer one of the predefined-segments shape with a group
\* that repeats clients of the older one
TaggedRepeatInputs ==
    {Request(<<WRITE_ENTITIES>>,
             <<AllMonth(1, 0, <<>>, <<>>, <<New(2, "", FALSE)>>),
               SegmentsMonth(0, 0, <<>>, <<>>,
                             <<Segment(<<>>, <<New(1, "", FALSE)>>),
                               Segment(ix, <<Client("", n, "", "", FALSE, TRUE, 0)>>)>>)>>) :
        ix \in {<<>>, <<0>>, <<2>>}, n \in 1..2}

Inputs == ImplicitInputs \cup ExplicitInputs \cup RepeatInputs \cup MultiMonthInputs
          \cup RejectedInputs \cup MixedInputs \cup TaggedRepeatInputs

\* ------------------------------------------------------------------- state
VARIABLES
    pc,        \* where the handler stands
    input,     \* the decoded request, as the handler has changed it so far
    months,    \* generated.months
    heap,      \* the EntityRecords allocated so far; a pointer is a position
    uuids,     \* GenerateUUID calls that succeeded
    next,      \* position in input.Data of the month directive being processed
    seg,       \* processMonth: position of the segment group (0: the all-clients shape)
    ci,        \* processMonth: position of the client directive in its list
    now,       \* write's now
    pqOpts,    \* write's pqOpts
    mi,        \* index i of write's loop over m.months
    segments,  \* the month's segments, once populateSegments returned them
    todo,      \* keys the range over segments has not visited yet
    paths,     \* write's paths
    reader,    \* the sliceSegmentReader handed to the aggregator
    reads,     \* what the reader returned to the aggregator, call by call
    calls,     \* the calls made to the activity log, in order
    resp       \* the handler's response

vars == <<pc, input, months, heap, uuids, next, seg, ci, now, pqOpts, mi, segments, todo, paths,
          reader, reads, calls, resp>>

Nows == {[month |-> 24321, off |-> 1]}

NoResponse == [status |-> "none", msg |-> "", err |-> "", missing |-> 0, paths |-> <<>>]
ErrorResponse(msg, err, missing) ==
    [status |-> "error", msg |-> msg, err |-> err, missing |-> missing, paths |-> <<>>]
OkResponse(p) == [status |-> "ok", msg |-> "", err |-> "", missing |-> 0, paths |-> p]

NoReader == [records |-> <<>>, i |-> 0]

\* one call to the activity log
Call(op, ts, seq, clients, opts) ==
    [op |-> op, ts |-> ts, seq |-> seq, clients |-> clients, pqOpts |-> opts]

opts == Range(input.Write)
writePQ == WRITE_PRECOMPUTED_QUERIES \in opts
writeDistinctClients == WRITE_DISTINCT_CLIENTS \in opts

Init ==
    /\ pc = "idle"
    /\ input = Request(<<>>, <<>>)
    /\ months = <<>>
    /\ heap = <<>>
    /\ uuids = 0
    /\ next = 1
    /\ seg = 0
    /\ ci = 0
    /\ now = ZeroTime
    /\ pqOpts = NoPqOptions
    /\ mi = 0
    /\ segments = EmptyMap
    /\ todo = {}
    /\ paths = <<>>
    /\ reader = NoReader
    /\ reads = <<>>
    /\ calls = <<>>
    /\ resp = NoResponse

\* the largest MonthsAgo of the request
RECURSIVE maxMonthsAgo(_, _)
maxMonthsAgo(data, numMonths) ==
    IF data = <<>> THEN numMonths
    ELSE maxMonthsAgo(Tail(data),
                      IF Head(data).MonthsAgo > numMonths THEN Head(data).MonthsAgo ELSE numMonths)

Return(r) == /\ pc' = "done"
             /\ resp' = r

\* clientcountutil.VerifyInput(input): whether it returns an error. Which
\* requests it rejects is not described; it may reject or accept any.
VerifyInput(in) == BOOLEAN

\* mutant of HandleActivityWriteData: the write options are not required
HandleWithoutWriteCheck ==
    /\ pc = "idle"
    /\ \E in \in Inputs :
      \E verifyFails \in VerifyInput(in) :
        /\ input' = in
        /\ IF Len(in.Data) = 0
           THEN Return(ErrorResponse("Missing required \"data\" values", "invalid", 0))
                /\ UNCHANGED months
           ELSE IF verifyFails
           THEN Return(ErrorResponse("Invalid input data", "invalid", 0))
                /\ UNCHANGED months
           ELSE /\ months' = newMultipleMonthsActivityClients(maxMonthsAgo(in.Data, 0) + 1)
                /\ pc' = IF Len(in.Data) = 0 THEN "write" ELSE "process"
                /\ UNCHANGED resp
    /\ UNCHANGED <<heap, uuids, next, seg, ci, now, pqOpts, mi, segments, todo, paths, reader,
                   reads, calls>>

\* handleActivityWriteData up to the construction of generated; the request
\* arrives decoded, and VerifyInput accepts or rejects it
HandleActivityWriteData ==
    /\ pc = "idle"
    /\ \E in \in Inputs :
      \E verifyFails \in VerifyInput(in) :
        /\ input' = in
        /\ IF Len(in.Write) = 0
           THEN Return(ErrorResponse("Missing required \"write\" values", "invalid", 0))
                /\ UNCHANGED months
           ELSE IF Len(in.Data) = 0
           THEN Return(ErrorResponse("Missing required \"data\" values", "invalid", 0))
                /\ UNCHANGED months
           ELSE IF verifyFails
           THEN Return(ErrorResponse("Invalid input data", "invalid", 0))
                /\ UNCHANGED months
           ELSE /\ months' = newMultipleMonthsActivityClients(maxMonthsAgo(in.Data, 0) + 1)
                /\ pc' = IF Len(in.Data) = 0 THEN "write" ELSE "process"
                /\ UNCHANGED resp
    /\ UNCHANGED <<heap, uuids, next, seg, ci, now, pqOpts, mi, segments, todo, paths, reader,
                   reads, calls>>

\* the handler's loop over input.Data moves to the directive after next, or
\* leaves the loop; p is the position processMonth goes on from, <<>> when it
\* has returned nil
Advance(p) ==
    IF p = <<>>
    THEN /\ next' = next + 1
         /\ pc' = IF next + 1 > Len(input.Data) THEN "write" ELSE "process"
         /\ seg' = 0
         /\ ci' = 0
    ELSE /\ pc' = "clients"
         /\ seg' = p[1]
         /\ ci' = p[2]
         /\ UNCHANGED next

\* processMonth up to its first client directive: ListMounts, the default
\* mount, and the month's generationParameters
ProcessMonth ==
    /\ pc = "process"
    /\ next <= Len(input.Data)
    /\ \E listMountsFails \in BOOLEAN :
        IF listMountsFails
        THEN /\ Return(ErrorResponse("failed to process data for month", "mounts", 0))
             /\ UNCHANGED <<months, next, seg, ci>>
        ELSE /\ months' = [months EXCEPT ![input.Data[next].MonthsAgo + 1].generationParameters =
                                             <<input.Data[next]>>]
             /\ Advance(seek(input.Data[next], firstSegOf(input.Data[next]), 1))
             /\ UNCHANGED resp
    /\ UNCHANGED <<input, heap, uuids, now, pqOpts, mi, segments, todo, paths, reader, reads,
                   calls>>

\* what the closure add does with the result st of addClientToMonth; month is
\* the directive with the client's namespace defaulted
ProcessClientReturn(st, month) ==
    /\ input' = [input EXCEPT !.Data[next] = month]
    /\ months' = [st.months EXCEPT ![month.MonthsAgo + 1].generationParameters = <<month>>]
    /\ heap' = st.heap
    /\ uuids' = st.uuids
    /\ IF st.err = "panic"
       THEN pc' = "panic" /\ UNCHANGED <<resp, next, seg, ci>>
       ELSE IF st.err # ""
       THEN /\ Return(ErrorResponse("failed to process data for month", st.err, st.missing))
            /\ UNCHANGED <<next, seg, ci>>
       ELSE /\ Advance(seek(month, seg, ci + 1))
            /\ UNCHANGED resp

\* the assembly state a client directive is processed in
assemblyState(budget) ==
    [months |-> months, heap |-> heap, uuids |-> uuids, budget |-> budget,
     err |-> "", missing |-> 0]

\* one turn of the loop of the closure add, on the client directive clients
\* (its namespace defaulted) of the month directive being processed
addOne(st, month, clients, segmentIndex) ==
    IF clients.Namespace \notin Namespaces
    THEN Fail(st, "namespace")
    ELSE IF clients.Mount # "" /\ <<clients.Namespace, clients.Mount>> \notin MountPaths
    THEN Fail(st, "mount")
    ELSE IF mountAccessorOf(clients) = <<>>
    THEN Fail(st, "mount")
    ELSE addClientToMonth(st, month.MonthsAgo, clients, mountAccessorOf(clients)[1],
                          segmentIndex)

\* the client directive at (seg, ci) of the month directive being processed
currentClient == clientListOf(input.Data[next], seg)[ci]

\* one turn of the loop of the closure add; GenerateUUID fails after budget
\* successful calls, or never
ProcessClient ==
    /\ pc = "clients"
    /\ \E budget \in -1..MaxCount :
        ProcessClientReturn(
            addOne(assemblyState(budget), input.Data[next], defaultNamespace(currentClient),
                   segmentIndexOf(input.Data[next], seg)),
            withClient(input.Data[next], seg, ci, defaultNamespace(currentClient)))
    /\ UNCHANGED <<now, pqOpts, mi, segments, todo, paths, reader, reads, calls>>

\* generated.write up to its loop over the months
BeginWrite ==
    /\ pc = "write"
    /\ \E t \in Nows :
        /\ now' = StartOfMonth(t)
        /\ pqOpts' = IF writePQ \/ writeDistinctClients
                     THEN [set |-> TRUE,
                           activePeriodEnd |-> latestTimestamp(months, StartOfMonth(t)),
                           endTime |-> LET l == latestTimestamp(months, StartOfMonth(t))
                                       IN  IF l = <<>> THEN <<>> ELSE <<EndOfMonth(l[1])>>,
                           activePeriodStart |-> earliestTimestamp(months, StartOfMonth(t))]
                     ELSE NoPqOptions
    /\ paths' = <<>>
    /\ mi' = 0
    /\ pc' = "month"
    /\ UNCHANGED <<input, months, heap, uuids, next, seg, ci, segments, todo, reader, reads, calls, resp>>

\* mutant of BeginMonth: a month that cannot be partitioned is passed over
BeginMonthPassingOver ==
    /\ pc = "month"
    /\ mi < Len(months)
    /\ IF months[mi + 1].generationParameters = <<>> \/ populateSegments(months[mi + 1]).err
       THEN /\ mi' = mi + 1
            /\ UNCHANGED <<pc, segments, todo, resp>>
       ELSE /\ segments' = populateSegments(months[mi + 1]).segments
            /\ todo' = DOMAIN populateSegments(months[mi + 1]).segments
            /\ pc' = "segments"
            /\ UNCHANGED <<mi, resp>>
    /\ UNCHANGED <<input, months, heap, uuids, next, seg, ci, now, pqOpts, paths, reader, reads, calls>>

\* the head of one turn of write's loop over m.months: months without a
\* directive are passed over, the others are partitioned
BeginMonth ==
    /\ pc = "month"
    /\ mi < Len(months)
    /\ IF months[mi + 1].generationParameters = <<>>
       THEN /\ mi' = mi + 1
            /\ UNCHANGED <<pc, segments, todo, resp>>
       ELSE LET r == populateSegments(months[mi + 1])
            IN  IF r.err
                THEN /\ Return(ErrorResponse("failed to write data", "segments", 0))
                     /\ UNCHANGED <<mi, segments, todo>>
                ELSE /\ segments' = r.segments
                     /\ todo' = DOMAIN r.segments
                     /\ pc' = "segments"
                     /\ UNCHANGED <<mi, resp>>
    /\ UNCHANGED <<input, months, heap, uuids, next, seg, ci, now, pqOpts, paths, reader, reads, calls>>

\* mutant of WriteSegment: skipped segments are written too
WriteSegmentNilToo ==
    /\ pc = "segments"
    /\ \E segmentIndex \in todo, saveFails \in BOOLEAN :
        /\ todo' = todo \ {segmentIndex}
        /\ IF WRITE_ENTITIES \in opts
           THEN /\ calls' = Append(calls, Call("save", monthTimestamp(mi, now), segmentIndex,
                                               segments[segmentIndex].recs, NoPqOptions))
                /\ IF saveFails
                   THEN /\ Return(ErrorResponse("failed to write data", "save", 0))
                        /\ UNCHANGED paths
                   ELSE /\ paths' = Append(paths, Len(calls) + 1)
                        /\ UNCHANGED <<pc, resp>>
           ELSE /\ ~saveFails
                /\ UNCHANGED <<calls, paths, pc, resp>>
    /\ UNCHANGED <<input, months, heap, uuids, next, seg, ci, now, pqOpts, mi, segments, reader,
                   reads>>

\* one turn of the range over segments, which visits the keys in any order
WriteSegment ==
    /\ pc = "segments"
    /\ \E segmentIndex \in todo, saveFails \in BOOLEAN :
        /\ todo' = todo \ {segmentIndex}
        /\ IF WRITE_ENTITIES \in opts /\ ~segments[segmentIndex].nil
           THEN /\ calls' = Append(calls, Call("save", monthTimestamp(mi, now), segmentIndex,
                                               segments[segmentIndex].recs, NoPqOptions))
                /\ IF saveFails
                   THEN /\ Return(ErrorResponse("failed to write data", "save", 0))
                        /\ UNCHANGED paths
                   ELSE /\ paths' = Append(paths, Len(calls) + 1)
                        /\ UNCHANGED <<pc, resp>>
           ELSE /\ ~saveFails
                /\ UNCHANGED <<calls, paths, pc, resp>>
    /\ UNCHANGED <<input, months, heap, uuids, next, seg, ci, now, pqOpts, mi, segments, reader, reads>>

\* after the range: the reader is built for the aggregator, or the month ends
EndSegments ==
    /\ pc = "segments"
    /\ todo = {}
    /\ IF writePQ \/ writeDistinctClients
       THEN /\ \E order \in Orders(DOMAIN segments) :
                reader' = newProtoSegmentReader(segments, order)
            /\ reads' = <<>>
            /\ pc' = "aggregate"
            /\ UNCHANGED mi
       ELSE /\ mi' = mi + 1
            /\ pc' = "month"
            /\ UNCHANGED <<reader, reads>>
    /\ UNCHANGED <<input, months, heap, uuids, next, seg, ci, now, pqOpts, segments, todo, paths, calls,
                   resp>>

\* mutant of ReadEntity: the cursor is not advanced
ReadEntityNoAdvance ==
    /\ pc = "aggregate"
    /\ Len(reads) < Len(reader.records) + ReadSlack
    /\ IF reader.i = Len(reader.records)
       THEN reads' = Append(reads, [op |-> "entity", eof |-> TRUE, clients |-> NilSlice])
       ELSE reads' = Append(reads, [op |-> "entity", eof |-> FALSE,
                                    clients |-> reader.records[reader.i + 1]])
    /\ UNCHANGED <<pc, input, months, heap, uuids, next, seg, ci, now, pqOpts, mi, segments, todo,
                   paths, reader, calls, resp>>

\* p.ReadEntity(ctx), called by the aggregator
ReadEntity ==
    /\ pc = "aggregate"
    /\ Len(reads) < Len(reader.records) + ReadSlack
    /\ IF reader.i = Len(reader.records)
       THEN /\ reads' = Append(reads, [op |-> "entity", eof |-> TRUE, clients |-> NilSlice])
            /\ UNCHANGED reader
       ELSE /\ reads' = Append(reads, [op |-> "entity", eof |-> FALSE,
                                       clients |-> reader.records[reader.i + 1]])
            /\ reader' = [reader EXCEPT !.i = @ + 1]
    /\ UNCHANGED <<pc, input, months, heap, uuids, next, seg, ci, now, pqOpts, mi, segments, todo, paths,
                   calls, resp>>

\* p.ReadToken(ctx), called by the aggregator
ReadToken ==
    /\ pc = "aggregate"
    /\ Len(reads) < Len(reader.records) + ReadSlack
    /\ reads' = Append(reads, [op |-> "token", eof |-> TRUE, clients |-> NilSlice])
    /\ UNCHANGED <<pc, input, months, heap, uuids, next, seg, ci, now, pqOpts, mi, segments, todo, paths,
                   reader, calls, resp>>

\* activityLog.segmentToPrecomputedQuery returns, and the reader is dropped
EndAggregate ==
    /\ pc = "aggregate"
    /\ \E aggregateFails \in BOOLEAN :
        /\ calls' = Append(calls, Call("aggregate", monthTimestamp(mi, now), 0, <<>>, pqOpts))
        /\ IF aggregateFails
           THEN /\ Return(ErrorResponse("failed to write data", "aggregate", 0))
                /\ UNCHANGED mi
           ELSE /\ mi' = mi + 1
                /\ pc' = "month"
                /\ UNCHANGED resp
    /\ reader' = NoReader
    /\ reads' = <<>>
    /\ UNCHANGED <<input, months, heap, uuids, next, seg, ci, now, pqOpts, segments, todo, paths>>

\* mutant of Refresh: the refresh does not wait for the end of the loop
RefreshEarly ==
    /\ pc = "month"
    /\ \E refreshFails \in BOOLEAN :
        /\ calls' = Append(calls, Call("refresh", now, 0, <<>>, NoPqOptions))
        /\ IF refreshFails
           THEN Return(ErrorResponse("failed to write data", "refresh", 0))
           ELSE Return(OkResponse(paths))
    /\ UNCHANGED <<input, months, heap, uuids, next, seg, ci, now, pqOpts, mi, segments, todo, paths,
                   reader, reads>>

\* after the loop: activityLog.refreshFromStoredLog, then the response
Refresh ==
    /\ pc = "month"
    /\ mi >= Len(months)
    /\ \E refreshFails \in BOOLEAN :
        /\ calls' = Append(calls, Call("refresh", now, 0, <<>>, NoPqOptions))
        /\ IF refreshFails
           THEN Return(ErrorResponse("failed to write data", "refresh", 0))
           ELSE Return(OkResponse(paths))
    /\ UNCHANGED <<input, months, heap, uuids, next, seg, ci, now, pqOpts, mi, segments, todo, paths,
                   reader, reads>>

Next ==
    \/ HandleActivityWriteData
    \/ ProcessMonth
    \/ ProcessClient
    \/ BeginWrite
    \/ BeginMonth
    \/ WriteSegment
    \/ EndSegments
    \/ ReadEntity
    \/ ReadToken
    \/ EndAggregate
    \/ Refresh

Spec == Init /\ [][Next]_vars

\* ================================================================== claims
\* vocabulary of the claims
Populated(i) == i \in 1..Len(months) /\ months[i].generationParameters # <<>>
Tagged(m) == DOMAIN m.predefinedSegments # {}
ParamsOf(m) == m.generationParameters[1]
TotalOf(m) == IF ParamsOf(m).NumSegments > 0 THEN ParamsOf(m).NumSegments ELSE 1
ReservedCountOf(m) == Len(ParamsOf(m).SkipSegmentIndexes) + Len(ParamsOf(m).EmptySegmentIndexes)
SkipSetOf(m) == Range(ParamsOf(m).SkipSegmentIndexes)
EmptySetOf(m) == Range(ParamsOf(m).EmptySegmentIndexes)
CeilDiv(n, k) == (n + k - 1) \div k

RECURSIVE SumOfSizes(_, _)
SumOfSizes(segs, keys) ==
    IF keys = {} THEN 0
    ELSE LET k == CHOOSE x \in keys : TRUE
         IN  Len(segs[k].recs) + SumOfSizes(segs, keys \ {k})

\* how often record r occurs in a sequence
Occurrences(seq, r) == Cardinality({j \in DOMAIN seq : seq[j] = r})

RECURSIVE OccurrencesInSegments(_, _, _)
OccurrencesInSegments(segs, keys, r) ==
    IF keys = {} THEN 0
    ELSE LET k == CHOOSE x \in keys : TRUE
         IN  Occurrences(segs[k].recs, r) + OccurrencesInSegments(segs, keys \ {k}, r)

\* the month the Output Stage is partitioning or has partitioned
Partitioned == pc \in {"segments", "aggregate"}

\* C1: in the implicit path with K = T - R > 0, populateSegments succeeds,
\* every non-reserved segment holds at most ceil(N/K) records, the sizes sum
\* to N and every pool record is placed as often as the pool holds it.
C1_ImplicitConservesAndBounds ==
    /\ \A i \in 1..Len(months) :
        (Populated(i) /\ ~Tagged(months[i]) /\ TotalOf(months[i]) - ReservedCountOf(months[i]) > 0)
        => LET m == months[i]
               n == Len(m.clients)
               k == TotalOf(m) - ReservedCountOf(m)
               r == populateSegments(m)
           IN  /\ ~r.err
               /\ \A x \in DOMAIN r.segments :
                    x \notin (SkipSetOf(m) \cup EmptySetOf(m))
                    => Len(r.segments[x].recs) <= CeilDiv(n, k)
               /\ SumOfSizes(r.segments, DOMAIN r.segments) = n
               /\ \A rec \in Range(m.clients) :
                    OccurrencesInSegments(r.segments, DOMAIN r.segments, rec)
                    = Occurrences(m.clients, rec)
    /\ Partitioned => segments = populateSegments(months[mi + 1]).segments

\* C1 witness: three untagged records, numSegments = 2, nothing reserved:
\* the map the Output Stage holds is {0: 2 records, 1: 1 record}.
C1_Witness ==
    /\ pc = "segments"
    /\ ~Tagged(months[mi + 1])
    /\ Len(months[mi + 1].clients) = 3
    /\ ParamsOf(months[mi + 1]).NumSegments = 2
    /\ ReservedCountOf(months[mi + 1]) = 0
    /\ DOMAIN segments = {0, 1}
    /\ Len(segments[0].recs) = 2
    /\ Len(segments[1].recs) = 1

\* the tags the records of a month carry
TagsOf(m) == DOMAIN m.predefinedSegments

\* C2 as stated: whenever populateSegments succeeds, every skip index is
\* present with a nil value and every empty index with an empty non-nil list.
C2_SkipNilEmptyPresent_AsStated ==
    \A i \in 1..Len(months) :
        Populated(i)
        => LET m == months[i]
               r == populateSegments(m)
           IN  ~r.err
               => /\ \A x \in SkipSetOf(m) : x \in DOMAIN r.segments /\ r.segments[x].nil
                  /\ \A x \in EmptySetOf(m) :
                        x \in DOMAIN r.segments /\ r.segments[x] = MakeSlice(<<>>)

\* C2 amended: whenever populateSegments succeeds, every skip index that is
\* neither an empty index nor a tag carried by a record is present with a nil
\* value, and every empty index that is not a tag carried by a record is
\* present with an empty non-nil list.
C2_SkipNilEmptyPresent ==
    \A i \in 1..Len(months) :
        Populated(i)
        => LET m == months[i]
               r == populateSegments(m)
           IN  ~r.err
               => /\ \A x \in SkipSetOf(m) \ (EmptySetOf(m) \cup TagsOf(m)) :
                        x \in DOMAIN r.segments /\ r.segments[x].nil
                  /\ \A x \in EmptySetOf(m) \ TagsOf(m) :
                        x \in DOMAIN r.segments /\ r.segments[x] = MakeSlice(<<>>)

\* C2 witness: a partitioned month with a skip index held as nil and an empty
\* index held as an empty list, beside a segment with records.
C2_Witness ==
    /\ pc = "segments"
    /\ \E x \in SkipSetOf(months[mi + 1]) : x \in DOMAIN segments /\ segments[x].nil
    /\ \E x \in EmptySetOf(months[mi + 1]) :
            x \in DOMAIN segments /\ segments[x] = MakeSlice(<<>>)
    /\ \E x \in DOMAIN segments : Len(segments[x].recs) > 0

\* the records of the pool whose tag is t, in pool insertion order
RECURSIVE TaggedRecords(_, _, _)
TaggedRecords(m, t, p) ==
    IF p > Len(m.clients) THEN <<>>
    ELSE (IF (p - 1) \in Range(m.predefinedSegments[t]) THEN <<m.clients[p]>> ELSE <<>>)
         \o TaggedRecords(m, t, p + 1)

WithNumSegments(m, t) == [m EXCEPT !.generationParameters[1].NumSegments = t]

\* C3: when a record of the pool carries a tag, populateSegments never
\* returns the too-few-segments error, its result is the same for every
\* numSegments, and the entry of every tag is the list of the records tagged
\* with it, in pool insertion order.
C3_ExplicitTagsDecide ==
    /\ \A i \in 1..Len(months) :
        (Populated(i) /\ Tagged(months[i]))
        => LET m == months[i]
               r == populateSegments(m)
           IN  /\ ~r.err
               /\ \A t \in 0..(MaxNumSegments + 1) : populateSegments(WithNumSegments(m, t)) = r
               /\ \A t \in TagsOf(m) :
                    /\ t \in DOMAIN r.segments
                    /\ r.segments[t] = MakeSlice(TaggedRecords(m, t, 1))
    /\ (resp.status = "error" /\ resp.err = "segments") => ~Tagged(months[mi + 1])

\* C3 witness: a month with tagged records, numSegments = 1 and one skipped
\* index (implicit sizing would reject it) has been partitioned, one tag
\* holding records of two segment groups.
C3_Witness ==
    /\ pc = "segments"
    /\ Tagged(months[mi + 1])
    /\ TotalOf(months[mi + 1]) - ReservedCountOf(months[mi + 1]) <= 0
    /\ \E t \in TagsOf(months[mi + 1]) : Len(segments[t].recs) >= 2

\* C8: in the implicit path populateSegments returns the too-few-segments
\* error, and no map, exactly when T - R <= 0, whatever the pool size; the
\* handler fails with that error only for such a month.
C8_TooFewSegmentsExactly ==
    /\ \A i \in 1..Len(months) :
        (Populated(i) /\ ~Tagged(months[i]))
        => LET m == months[i]
               r == populateSegments(m)
           IN  /\ r.err <=> (TotalOf(m) - ReservedCountOf(m) <= 0)
               /\ r.err => r.segments = EmptyMap
    /\ (resp.status = "error" /\ resp.err = "segments")
       => /\ ~Tagged(months[mi + 1])
          /\ TotalOf(months[mi + 1]) - ReservedCountOf(months[mi + 1]) <= 0
    /\ (Partitioned /\ ~Tagged(months[mi + 1]))
       => TotalOf(months[mi + 1]) - ReservedCountOf(months[mi + 1]) > 0

\* C8 witness: numSegments = 1 with skipSegmentIndexes = [0] ended the request
\* with the too-few-segments error.
C8_Witness ==
    /\ resp.status = "error"
    /\ resp.err = "segments"
    /\ ParamsOf(months[mi + 1]).NumSegments = 1
    /\ ParamsOf(months[mi + 1]).SkipSegmentIndexes = <<0>>
    /\ ParamsOf(months[mi + 1]).EmptySegmentIndexes = <<>>

\* ---- repetition
\* the client directive about to be processed, its namespace defaulted
Directive == defaultNamespace(currentClient)
IsRepeat(c) == c.Repeated \/ c.RepeatedFromMonth > 0
TargetMonth == input.Data[next].MonthsAgo
SourceMonth == IF Directive.RepeatedFromMonth > 0 THEN Directive.RepeatedFromMonth
               ELSE TargetMonth + 1
Requested == IF Directive.Count = 0 THEN 1 ELSE Directive.Count

\* a repeat directive is about to reach addRepeatedClients: its namespace and
\* mount resolve, and its source month is in the store
RepeatReached ==
    /\ pc = "clients"
    /\ IsRepeat(Directive)
    /\ Directive.Namespace \in Namespaces
    /\ Directive.Mount # "" => <<Directive.Namespace, Directive.Mount>> \in MountPaths
    /\ mountAccessorOf(Directive) # <<>>
    /\ SourceMonth + 1 <= Len(months)

\* the records of the source month that match the directive, in source order
MatchesDirective(r) ==
    /\ heap[r].NonEntity = Directive.NonEntity
    /\ heap[r].MountAccessor = mountAccessorOf(Directive)[1]
    /\ heap[r].NamespaceID = Directive.Namespace
Matching == SelectSeq(months[SourceMonth + 1].clients, MatchesDirective)

\* C4: a repeat directive for M clients whose source month holds at least M
\* matching records appends to the end of the target pool exactly the first M
\* matching records of the source pool as it stands, in source order; they are
\* the source's own record objects, no record is created or changed, and no
\* other pool changes.
C4_RepeatSelectsFirstMatches ==
    [][(RepeatReached /\ Len(Matching) >= Requested)
       => /\ months'[TargetMonth + 1].clients
               = months[TargetMonth + 1].clients \o SubSeq(Matching, 1, Requested)
          /\ heap' = heap
          /\ \A i \in 1..Len(months) :
                i # TargetMonth + 1 => months'[i].clients = months[i].clients]_vars

\* C4 witness: month 0 holds exactly the first and the third record of month
\* 1 (the second one does not match), and every record of the heap was
\* created for month 1.
C4_Witness ==
    /\ pc = "write"
    /\ Len(months) = 2
    /\ Len(months[2].clients) = 3
    /\ months[1].clients = <<months[2].clients[1], months[2].clients[3]>>
    /\ Len(heap) = 3

\* C5: a repeat directive for M clients fails with the missing-repeated-
\* clients error reporting M - A when the source month holds only A < M
\* matching records, and does not fail when A >= M.
C5_RepeatShortfall ==
    [][RepeatReached
       => /\ Len(Matching) < Requested
             => /\ pc' = "done"
                /\ resp'.status = "error"
                /\ resp'.err = "missing"
                /\ resp'.missing = Requested - Len(Matching)
          /\ Len(Matching) >= Requested
             => /\ pc' \in {"clients", "process", "write"}
                /\ resp' = resp]_vars

\* C5 witness: a request failed for two missing repeated clients although the
\* source month holds a matching record, which was added before the failure.
C5_Witness ==
    /\ resp.status = "error"
    /\ resp.err = "missing"
    /\ resp.missing = 2
    /\ \E i \in 1..Len(months) :
        /\ Len(months[i].clients) = 1
        /\ \E j \in 1..Len(months) : j # i /\ months[i].clients[1] \in Range(months[j].clients)

\* ---- the reader
EntityReads == SelectSeq(reads, LAMBDA r : r.op = "entity")

\* C6: the reader holds one batch per list of the segment map (the same
\* lists, some order); the ReadEntity calls made so far returned these
\* batches one after the other, each once, and end-of-sequence from then on;
\* every ReadToken call returned end-of-sequence, and the cursor counts the
\* batches returned, whatever ReadToken calls came in between.
C6_ReaderRoundTrip ==
    pc = "aggregate"
    => /\ \E order \in Orders(DOMAIN segments) :
            reader.records = [j \in 1..Len(order) |-> segments[order[j]]]
       /\ \A j \in 1..Len(EntityReads) :
            IF j <= Len(reader.records)
            THEN ~EntityReads[j].eof /\ EntityReads[j].clients = reader.records[j]
            ELSE EntityReads[j].eof
       /\ \A j \in 1..Len(reads) : reads[j].op = "token" => reads[j].eof
       /\ reader.i = Min(Len(EntityReads), Len(reader.records))

\* C6 witness: a reader over three lists returned them all, with a ReadToken
\* call in between, and then end-of-sequence.
C6_Witness ==
    /\ pc = "aggregate"
    /\ Len(reader.records) = 3
    /\ Len(reads) = 5
    /\ reads[2].op = "token"
    /\ reads[5].op = "entity"
    /\ reads[5].eof

\* ---- the Output Stage
SaveCalls == SelectSeq(calls, LAMBDA c : c.op = "save")
SavePositions == {j \in 1..Len(calls) : calls[j].op = "save"}

\* the writes a successful request owes: one per non-nil entry of the map of
\* every populated month
OwedWrites ==
    UNION {{[ts |-> monthTimestamp(i - 1, now), seq |-> k,
             clients |-> populateSegments(months[i]).segments[k].recs] :
               k \in {x \in DOMAIN populateSegments(months[i]).segments :
                         ~populateSegments(months[i]).segments[x].nil}} :
           i \in {x \in 1..Len(months) : Populated(x)}}

\* the positions of the save calls, in call order
RECURSIVE Ascending(_)
Ascending(S) ==
    IF S = {} THEN <<>>
    ELSE LET lo == CHOOSE x \in S : \A y \in S : x <= y
         IN  <<lo>> \o Ascending(S \ {lo})

\* C7: after a successful request for entity segments the writer was called
\* exactly once per non-nil entry of the map of every populated month, with
\* the entry's records, the month's timestamp and the segment index, and the
\* response lists exactly the identifiers of these calls; without the entity
\* option the writer was not called and the list is empty.
C7_WritesMatchSegments ==
    resp.status = "ok"
    => IF WRITE_ENTITIES \in opts
       THEN /\ {[ts |-> c.ts, seq |-> c.seq, clients |-> c.clients] : c \in Range(SaveCalls)}
                 = OwedWrites
            /\ Len(SaveCalls) = Cardinality(OwedWrites)
            /\ resp.paths = Ascending(SavePositions)
       ELSE SaveCalls = <<>> /\ resp.paths = <<>>

\* C7 witness: a successful request whose only month has a skipped index, an
\* empty index and a segment with records returned two identifiers, one of
\* them for a write of zero records.
C7_Witness ==
    /\ resp.status = "ok"
    /\ Len(months) = 1
    /\ \E x \in DOMAIN populateSegments(months[1]).segments :
            populateSegments(months[1]).segments[x].nil
    /\ Len(resp.paths) = 2
    /\ \E j \in 1..Len(calls) : calls[j].op = "save" /\ calls[j].clients = <<>>
    /\ \E j \in 1..Len(calls) : calls[j].op = "save" /\ calls[j].clients # <<>>

\* C9 as stated: the writes of one month are made in ascending segment-index
\* order, none twice.
C9_WritesAscending_AsStated ==
    \A p, q \in 1..Len(calls) :
        (p < q /\ calls[p].op = "save" /\ calls[q].op = "save" /\ calls[p].ts = calls[q].ts)
        => calls[p].seq < calls[q].seq

\* the month directives up to position k name month index ma
NamedUpTo(k, ma) == \E j \in 1..k : j <= Len(input.Data) /\ input.Data[j].MonthsAgo = ma

AssemblyErrors == {"invalid", "mounts", "namespace", "mount", "missing", "uuid"}

\* C10: nothing is written before every month is assembled: while the
\* handler validates and assembles, and after it failed there, no call to the
\* writer, the aggregator or the refresh has been made; a request without
\* write actions or without month directives ends in an error; and when a
\* month directive fails, the months only later directives name are untouched.
C10_AssembleBeforeWrite ==
    /\ pc \in {"idle", "process", "clients", "write", "panic"} => calls = <<>> /\ paths = <<>>
    /\ (resp.status = "error" /\ resp.err \in AssemblyErrors) => calls = <<>> /\ paths = <<>>
    /\ (pc # "idle" /\ (Len(input.Write) = 0 \/ Len(input.Data) = 0))
       => pc = "done" /\ resp.status = "error" /\ resp.err = "invalid" /\ months = <<>>
    /\ (resp.status = "error" /\ resp.err \in AssemblyErrors \ {"invalid"})
       => \A i \in 1..Len(months) : ~NamedUpTo(next, i - 1) => months[i] = NewSingleMonth
    /\ calls # <<>> => next = Len(input.Data) + 1

\* C10 witness: the first of two month directives added a record and then
\* failed on a later client; the request ended in an error with nothing
\* written and the month only the second directive names untouched.
C10_Witness ==
    /\ resp.status = "error"
    /\ resp.err \in {"namespace", "mount"}
    /\ next = 1
    /\ Len(input.Data) = 2
    /\ Len(heap) > 0
    /\ months[1] = NewSingleMonth
    /\ calls = <<>>

\* ---- sequential filling
\* the lists of the segments with these keys, one after the other in
\* ascending key order
RECURSIVE ConcatAscending(_, _)
ConcatAscending(segs, keys) ==
    IF keys = {} THEN <<>>
    ELSE LET lo == CHOOSE x \in keys : \A y \in keys : x <= y
         IN  segs[lo].recs \o ConcatAscending(segs, keys \ {lo})

\* the segments that hold records
PopulatedKeys(segs) == {x \in DOMAIN segs : Len(segs[x].recs) > 0}

\* C11: in the result of the implicit path the lists of the populated
\* segments, in ascending index order, are the pool in insertion order; no
\* skip or empty index holds a record; every populated segment but the last
\* holds exactly ceil(N/K) records; and a non-reserved index is in the map
\* only with records (an index after the pool is exhausted is absent).
C11_SequentialFillEarlyStop ==
    \A i \in 1..Len(months) :
        (Populated(i) /\ ~Tagged(months[i]) /\ ~populateSegments(months[i]).err)
        => LET m == months[i]
               segs == populateSegments(m).segments
               pop == PopulatedKeys(segs)
               reserved == SkipSetOf(m) \cup EmptySetOf(m)
           IN  /\ ConcatAscending(segs, pop) = m.clients
               /\ pop \cap reserved = {}
               /\ \A x \in pop :
                    (\E y \in pop : y > x)
                    => Len(segs[x].recs)
                       = CeilDiv(Len(m.clients), TotalOf(m) - ReservedCountOf(m))
               /\ DOMAIN segs \ reserved = pop
               /\ pop \subseteq 0..(TotalOf(m) - 1)

\* C11 witness: two untagged records and numSegments = 3 with index 1
\* skipped: the first record is in segment 0, the second in segment 2, and
\* nothing else is in the map but the reserved index.
C11_Witness ==
    /\ pc = "segments"
    /\ ~Tagged(months[mi + 1])
    /\ Len(months[mi + 1].clients) = 2
    /\ ParamsOf(months[mi + 1]).NumSegments = 3
    /\ ParamsOf(months[mi + 1]).SkipSegmentIndexes = <<1>>
    /\ ParamsOf(months[mi + 1]).EmptySegmentIndexes = <<>>
    /\ DOMAIN segments = {0, 1, 2}
    /\ segments[0].recs = <<months[mi + 1].clients[1]>>
    /\ segments[2].recs = <<months[mi + 1].clients[2]>>

\* C11 second case, the early stop: one untagged record and numSegments = 3
\* leave the indexes 1 and 2 out of the map.
C11_EarlyStopReached ==
    /\ pc = "segments"
    /\ ~Tagged(months[mi + 1])
    /\ Len(months[mi + 1].clients) = 1
    /\ ParamsOf(months[mi + 1]).NumSegments = 3
    /\ ReservedCountOf(months[mi + 1]) = 0
    /\ DOMAIN segments = {0}

\* ---- tagging
\* the month directive being processed
CurrentMonth == input.Data[next]

\* the index the group at list position seg resolves to
GroupIndex ==
    IF CurrentMonth.Segments[seg].SegmentIndex # <<>>
    THEN CurrentMonth.Segments[seg].SegmentIndex[1]
    ELSE seg - 1

\* the 0-based pool positions from..(to - 1), in order
Positions(from, to) == [j \in 1..(to - from) |-> from + j - 1]

\* C12: a client directive of the all-clients shape adds its records
\* untagged; a client directive of the group at list position p of the
\* predefined-segments shape appends the positions of all its records, in
\* order, to the list of the group's own index, or of p when it has none;
\* no other tag list changes.
C12_ShapesDetermineTagging ==
    [][pc = "clients"
       => LET t == CurrentMonth.MonthsAgo + 1
              before == months[t]
              after == months'[t]
              added == Positions(Len(before.clients), Len(after.clients))
          IN  IF CurrentMonth.Kind = "all" \/ added = <<>>
              THEN after.predefinedSegments = before.predefinedSegments
              ELSE after.predefinedSegments
                   = MapPut(before.predefinedSegments, GroupIndex,
                            (IF GroupIndex \in DOMAIN before.predefinedSegments
                             THEN before.predefinedSegments[GroupIndex] ELSE <<>>) \o added)]_vars

\* C12 witness: the first group names index 1, the second group has no
\* index and stands at position 1: the records of both are tagged 1, those
\* of the first group first.
C12_Witness ==
    /\ pc = "write"
    /\ Len(input.Data) = 1
    /\ Len(input.Data[1].Segments) = 2
    /\ input.Data[1].Segments[1].SegmentIndex = <<1>>
    /\ input.Data[1].Segments[1].Clients[1].Count = 2
    /\ input.Data[1].Segments[2].SegmentIndex = <<>>
    /\ DOMAIN months[1].predefinedSegments = {1}
    /\ months[1].predefinedSegments[1] = <<0, 1, 2>>
    /\ Len(months[1].clients) = 3

\* ---- the reader in the aggregation path
\* the segments of the month that are not skipped
NonSkipped == {x \in DOMAIN segments : ~segments[x].nil}

\* C13 as stated: the collection the reader iterates holds no nil entry, and
\* it holds as many batches as the month has non-skipped segments, so no
\* more than these are ever returned by ReadEntity.
C13_ReaderHasNoNil_AsStated ==
    pc = "aggregate"
    => /\ \A j \in 1..Len(reader.records) : ~reader.records[j].nil
       /\ Len(reader.records) = Cardinality(NonSkipped)
       /\ Cardinality({j \in 1..Len(EntityReads) : ~EntityReads[j].eof})
            <= Cardinality(NonSkipped)

\* ---- the refresh
RefreshPositions == {j \in 1..Len(calls) : calls[j].op = "refresh"}
AggregateCalls == SelectSeq(calls, LAMBDA c : c.op = "aggregate")
PopulatedMonths == {i \in 1..Len(months) : Populated(i)}
OutputErrors == {"segments", "save", "aggregate"}

\* C14: the refresh is initiated at most once, as the last call of the
\* request, after one write per non-nil segment and one aggregation per
\* populated month (as far as the options ask for them); a successful
\* request initiated it exactly once; after a partitioning, write or
\* aggregation failure it was not initiated and no identifier is returned;
\* when the refresh fails the request fails and returns no identifier.
C14_RefreshOnceAtTheEnd ==
    /\ Cardinality(RefreshPositions) <= 1
    /\ RefreshPositions # {}
       => /\ RefreshPositions = {Len(calls)}
          /\ pc = "done"
          /\ resp.status = "ok" \/ (resp.status = "error" /\ resp.err = "refresh")
          /\ Len(SaveCalls) = IF WRITE_ENTITIES \in opts THEN Cardinality(OwedWrites) ELSE 0
          /\ Len(AggregateCalls)
               = IF writePQ \/ writeDistinctClients THEN Cardinality(PopulatedMonths) ELSE 0
    /\ resp.status = "ok" => Cardinality(RefreshPositions) = 1
    /\ (resp.status = "error" /\ resp.err \in OutputErrors)
       => RefreshPositions = {} /\ resp.paths = <<>>
    /\ (resp.status = "error" /\ resp.err = "refresh")
       => Cardinality(RefreshPositions) = 1 /\ resp.paths = <<>>

\* C14 witness: a successful request for two months with writes and
\* aggregations ended with the one refresh.
C14_Witness ==
    /\ resp.status = "ok"
    /\ Cardinality(PopulatedMonths) = 2
    /\ Len(SaveCalls) >= 2
    /\ Len(AggregateCalls) = 2
    /\ calls[Len(calls)].op = "refresh"
    /\ Len(resp.paths) = Len(SaveCalls)

\* C14 second case: the refresh failed after segments were written, and the
\* response is an error without identifiers.
C14_RefreshFailureReached ==
    /\ resp.status = "error"
    /\ resp.err = "refresh"
    /\ Len(SaveCalls) >= 1
    /\ paths # <<>>
    /\ resp.paths = <<>>

\* ---- fail-fast output
\* the calls that write or aggregate a month
MonthCallPositions == {j \in 1..Len(calls) : calls[j].op \in {"save", "aggregate"}}

\* the months-ago index a call is about
MonthOfCall(c) == now.month - c.ts.month

\* the writes owed for the month at index i (months-ago i - 1)
OwedWritesOf(i) ==
    {[ts |-> monthTimestamp(i - 1, now), seq |-> k,
      clients |-> populateSegments(months[i]).segments[k].recs] :
        k \in {x \in DOMAIN populateSegments(months[i]).segments :
                  ~populateSegments(months[i]).segments[x].nil}}

SaveCallsAsWrites == {[ts |-> c.ts, seq |-> c.seq, clients |-> c.clients] : c \in Range(SaveCalls)}

\* the Output Stage has gone past the month at index i
Passed(i) == pc \in {"month", "segments", "aggregate", "done"} /\ i - 1 < mi

\* C15: the calls for the months are made in ascending months-ago order and
\* for populated months only; within a month the aggregation comes after
\* all its writes; a month is reached only when every populated month
\* before it was partitioned without error, fully written and aggregated;
\* and after a partitioning, write or aggregation failure for month j the
\* writes of the months before j stand, no call is about a month after j,
\* and the response is an error without identifiers.
C15_FailFastNoRollback ==
    /\ \A p, q \in MonthCallPositions :
            p < q => /\ MonthOfCall(calls[p]) <= MonthOfCall(calls[q])
                     /\ (calls[p].op = "aggregate")
                        => MonthOfCall(calls[p]) < MonthOfCall(calls[q])
    /\ \A p \in MonthCallPositions :
            /\ Populated(MonthOfCall(calls[p]) + 1)
            /\ MonthOfCall(calls[p]) <= mi
    /\ \A i \in PopulatedMonths :
            Passed(i)
            => /\ ~populateSegments(months[i]).err
               /\ WRITE_ENTITIES \in opts => OwedWritesOf(i) \subseteq SaveCallsAsWrites
               /\ (writePQ \/ writeDistinctClients)
                  => \E p \in MonthCallPositions :
                        calls[p].op = "aggregate" /\ MonthOfCall(calls[p]) = i - 1
    /\ (pc \in {"segments", "aggregate"}) => ~populateSegments(months[mi + 1]).err
    /\ (resp.status = "error" /\ resp.err \in OutputErrors)
       => /\ pc = "done"
          /\ resp.paths = <<>>
          /\ Populated(mi + 1)

\* C15 witness: month 0 was written and aggregated, then month 1 could not
\* be partitioned: the request failed, the calls for month 0 stand.
C15_Witness ==
    /\ resp.status = "error"
    /\ resp.err = "segments"
    /\ mi = 1
    /\ Len(SaveCalls) >= 1
    /\ Len(AggregateCalls) = 1
    /\ paths # <<>>
    /\ resp.paths = <<>>

\* C15 second case: a write of month 1 failed after month 0 was written.
C15_WriteFailureReached ==
    /\ resp.status = "error"
    /\ resp.err = "save"
    /\ mi = 1
    /\ \E p \in MonthCallPositions : MonthOfCall(calls[p]) = 0
    /\ resp.paths = <<>>

\* ---- the aggregation context
\* the timestamp of the month with months-ago index i: the first instant of
\* the i-th month before the current one
TimestampOfMonth(i) == [month |-> now.month - i, off |-> 0]

TimeLeq(a, b) == a.month < b.month \/ (a.month = b.month /\ a.off <= b.off)

OldestPopulated == CHOOSE i \in PopulatedMonths : \A j \in PopulatedMonths : j <= i
NewestPopulated == CHOOSE i \in PopulatedMonths : \A j \in PopulatedMonths : i <= j

\* the Output Stage has set up its aggregation context
InOutputStage == pc \in {"month", "segments", "aggregate"} \/ calls # <<>>

\* C16: when aggregation is requested, every aggregation call carries the
\* one context whose period start is the timestamp of the populated month
\* with the largest months-ago index and whose period end is the timestamp
\* of the populated month with the smallest; the timestamp of every
\* aggregation call lies between the two; and every write and aggregation
\* call is for a populated month, with that month's timestamp.
C16_AggregationContext ==
    InOutputStage
    => /\ IF writePQ \/ writeDistinctClients
          THEN /\ pqOpts.set
               /\ pqOpts.activePeriodStart = <<TimestampOfMonth(OldestPopulated - 1)>>
               /\ pqOpts.activePeriodEnd = <<TimestampOfMonth(NewestPopulated - 1)>>
          ELSE AggregateCalls = <<>>
       /\ \A j \in 1..Len(AggregateCalls) :
            /\ AggregateCalls[j].pqOpts = pqOpts
            /\ TimeLeq(pqOpts.activePeriodStart[1], AggregateCalls[j].ts)
            /\ TimeLeq(AggregateCalls[j].ts, pqOpts.activePeriodEnd[1])
       /\ \A p \in MonthCallPositions :
            \E i \in PopulatedMonths : calls[p].ts = TimestampOfMonth(i - 1)

\* C16 witness: months 1 and 2 hold directives, month 0 holds none: both
\* months were aggregated with the period from month 2 to month 1.
C16_Witness ==
    /\ resp.status = "ok"
    /\ PopulatedMonths = {2, 3}
    /\ Len(AggregateCalls) = 2
    /\ AggregateCalls[1].ts = TimestampOfMonth(1)
    /\ AggregateCalls[2].ts = TimestampOfMonth(2)
    /\ AggregateCalls[2].pqOpts.activePeriodStart = <<TimestampOfMonth(2)>>
    /\ AggregateCalls[2].pqOpts.activePeriodEnd = <<TimestampOfMonth(1)>>

\* C16 second case: a gap between the populated months 0 and 2.
C16_GapReached ==
    /\ resp.status = "ok"
    /\ PopulatedMonths = {1, 3}
    /\ Len(AggregateCalls) = 2
    /\ pqOpts.activePeriodStart = <<TimestampOfMonth(2)>>
    /\ pqOpts.activePeriodEnd = <<now>>

\* ---- the pools
IsPrefix(a, b) == Len(a) <= Len(b) /\ SubSeq(b, 1, Len(a)) = a

\* the records a step appended to the pool of the month at index i
AppendedTo(i) == SubSeq(months'[i].clients, Len(months[i].clients) + 1, Len(months'[i].clients))

\* the count of a new-client directive
CountOf(c) == IF c.Count > 1 THEN c.Count ELSE 1

\* C17: a step never removes, reorders or changes a position of a pool or a
\* record; processing a client directive for month t changes no other pool;
\* a new-client directive appends records it has just created, all with the
\* directive's namespace, non-entity flag and client type and the resolved
\* mount accessor, max(count, 1) of them when it does not fail; and no step
\* of the Output Stage (populateSegments, the writes, the reader) changes
\* the store at all, the map in hand being what populateSegments returns
\* when it is called again.
C17_PoolsAppendOnly ==
    [][/\ pc # "idle"
          => /\ Len(months') = Len(months)
             /\ \A i \in 1..Len(months) : IsPrefix(months[i].clients, months'[i].clients)
             /\ IsPrefix(heap, heap')
       /\ pc = "process" => \A i \in 1..Len(months) : months'[i].clients = months[i].clients
       /\ pc = "clients"
          => /\ \A i \in 1..Len(months) :
                    i # TargetMonth + 1 => months'[i].clients = months[i].clients
             /\ ~IsRepeat(Directive)
                => LET added == AppendedTo(TargetMonth + 1)
                   IN  /\ added = [j \in 1..Len(added) |-> Len(heap) + j]
                       /\ Len(heap') = Len(heap) + Len(added)
                       /\ Len(added) <= CountOf(Directive)
                       /\ pc' \in {"clients", "process", "write"}
                          => Len(added) = CountOf(Directive)
                       /\ \A j \in 1..Len(added) :
                            /\ heap'[added[j]].NamespaceID = Directive.Namespace
                            /\ heap'[added[j]].MountAccessor = mountAccessorOf(Directive)[1]
                            /\ heap'[added[j]].NonEntity = Directive.NonEntity
                            /\ heap'[added[j]].ClientType
                                 = IF Directive.NonEntity THEN nonEntityTokenActivityType
                                   ELSE entityActivityType
       /\ pc \in {"write", "month", "segments", "aggregate", "done"}
          => /\ months' = months
             /\ heap' = heap
             /\ pc' \in {"segments", "aggregate"}
                => segments' = populateSegments(months[mi' + 1]).segments]_vars

\* C17 witness: the month of index 1 took one record from a directive and
\* one from a directive with count 0, the month of index 0 then took two
\* records with the one identifier of a directive with count 2; all four
\* stand where they were put.
C17_Witness ==
    /\ pc = "write"
    /\ Len(months) = 2
    /\ months[2].clients = <<1, 2>>
    /\ months[1].clients = <<3, 4>>
    /\ heap[2].ClientID = "c2"
    /\ heap[3].ClientID = "c1"
    /\ heap[4] = heap[3]

\* ---- the source month of a repeat directive
\* a repeat directive is about to be dispatched to addRepeatedClients: its
\* namespace and mount resolve
RepeatDispatched ==
    /\ pc = "clients"
    /\ IsRepeat(Directive)
    /\ Directive.Namespace \in Namespaces
    /\ Directive.Mount # "" => <<Directive.Namespace, Directive.Mount>> \in MountPaths
    /\ mountAccessorOf(Directive) # <<>>

\* C18 as stated: every repeat directive the handler dispatches reads a
\* source month inside the store, which holds the months 0..maxMonthsAgo of
\* the request, and so the handler never indexes the store out of range.
C18_RepeatReadsInsideStore_AsStated ==
    /\ RepeatDispatched => SourceMonth <= maxMonthsAgo(input.Data, 0)
    /\ RepeatDispatched => SourceMonth + 1 <= Len(months)
    /\ pc # "panic"

\* ---- conservation
\* the 0-based pool positions that carry a tag
TaggedPositions(m) == UNION {Range(m.predefinedSegments[t]) : t \in TagsOf(m)}

\* how many of the given positions hold record rec
HeldAt(m, positions, rec) == Cardinality({q \in positions : m.clients[q + 1] = rec})

\* how often position q is recorded under the tags in keys
RECURSIVE TimesTagged(_, _, _)
TimesTagged(m, keys, q) ==
    IF keys = {} THEN 0
    ELSE LET k == CHOOSE x \in keys : TRUE
         IN  Occurrences(m.predefinedSegments[k], q) + TimesTagged(m, keys \ {k}, q)

AllPositions(m) == 0..(Len(m.clients) - 1)

\* C19 as stated: whenever populateSegments succeeds, the segment lists
\* together hold as many entries as the pool has positions, and every record
\* as often as the pool holds it.
C19_EveryPositionPlacedOnce_AsStated ==
    \A i \in 1..Len(months) :
        (Populated(i) /\ ~populateSegments(months[i]).err)
        => LET m == months[i]
               segs == populateSegments(m).segments
           IN  /\ SumOfSizes(segs, DOMAIN segs) = Len(m.clients)
               /\ \A rec \in Range(m.clients) :
                    OccurrencesInSegments(segs, DOMAIN segs, rec)
                    = HeldAt(m, AllPositions(m), rec)

\* C19 amended: whenever populateSegments succeeds on a pool without tags,
\* the segment lists in ascending index order are the pool, position by
\* position; on a pool with tags, every tagged position is recorded under
\* exactly one tag and once, the lists together hold exactly the tagged
\* positions, each record as often as tagged positions hold it, and the
\* untagged positions are in no list.
C19_EveryPositionPlacedOnce ==
    \A i \in 1..Len(months) :
        (Populated(i) /\ ~populateSegments(months[i]).err)
        => LET m == months[i]
               segs == populateSegments(m).segments
           IN  IF ~Tagged(m)
               THEN ConcatAscending(segs, PopulatedKeys(segs)) = m.clients
               ELSE /\ TaggedPositions(m) \subseteq AllPositions(m)
                    /\ \A q \in AllPositions(m) :
                         TimesTagged(m, TagsOf(m), q)
                         = IF q \in TaggedPositions(m) THEN 1 ELSE 0
                    /\ SumOfSizes(segs, DOMAIN segs) = Cardinality(TaggedPositions(m))
                    /\ \A rec \in Range(m.clients) :
                         OccurrencesInSegments(segs, DOMAIN segs, rec)
                         = HeldAt(m, TaggedPositions(m), rec)

\* C19 witness: two month directives name month 0, one of each shape; the
\* pool holds tagged and untagged records and the map in hand holds the
\* tagged ones only.
C19_Witness ==
    /\ pc = "segments"
    /\ Len(input.Data) = 2
    /\ input.Data[1].MonthsAgo = input.Data[2].MonthsAgo
    /\ Tagged(months[mi + 1])
    /\ Cardinality(TaggedPositions(months[mi + 1])) = 2
    /\ Len(months[mi + 1].clients) = 3
    /\ SumOfSizes(segments, DOMAIN segments) = 2

\* C19 second case: two directives of the all-clients shape name the same
\* month, and the pool of both is partitioned as one.
C19_TwoDirectivesOnePoolReached ==
    /\ pc = "segments"
    /\ Len(input.Data) = 2
    /\ input.Data[1].MonthsAgo = input.Data[2].MonthsAgo
    /\ input.Data[1].Kind = "all"
    /\ input.Data[2].Kind = "all"
    /\ ~Tagged(months[mi + 1])
    /\ Len(months[mi + 1].clients) = 4
    /\ SumOfSizes(segments, DOMAIN segments) = 4
====
